---- MODULE Spec2Model ----
(***************************************************************************)
(* KONA news pipeline: the article-generation orchestrator                 *)
(* (scripts/generate_articles.py) and the helpers it uses                  *)
(* (scripts/utils.py): APIKeyManager, RateLimiter, load_latest_news_data   *)
(* and save_generated_article.                                             *)
(*                                                                         *)
(* Time is the wall clock in whole seconds; time.time() and datetime.now() *)
(* both read it.  A provider response text is a sequence of tokens: the    *)
(* opening json fence (FJ), the bare fence (F), whitespace (WS),            *)
(* prose that is no JSON (X), and complete JSON documents.                 *)
(***************************************************************************)
EXTENDS Integers, Sequences, FiniteSets, TLC

VARIABLES
    env,              \* os.environ and the importable provider libraries
    news_dir,         \* the news_data directory
    claude_client,    \* ArticleGenerator.claude_client is not None
    openai_client,    \* ArticleGenerator.openai_client is not None
    calls_per_minute, \* RateLimiter.calls_per_minute
    calls,            \* RateLimiter.calls
    clock,            \* wall clock, seconds
    provider_times,   \* history: clock at each provider call issued
    wait_log,         \* history: one record per wait_if_needed call
    last_call,        \* history: the last direct call of a function
    pc,               \* position of run(): idle, loop, done, raised
    max_articles,     \* run()'s argument
    top_stories,      \* run()'s local top_stories
    idx,              \* number of loop iterations of run() completed
    generated_files,  \* run()'s local generated_files
    sink,             \* generated_articles directory: filename -> content
    gen_log,          \* history: stories passed to generate_article
    item_log,         \* history: per iteration, what the provider answered
    raised,           \* exception that left run(), or "none"
    save_failed_at    \* history: iteration whose save was made to fail, or 0

vars == << env, news_dir, claude_client, openai_client, calls_per_minute,
           calls, clock, provider_times, wait_log, last_call, pc,
           max_articles, top_stories, idx, generated_files, sink, gen_log,
           item_log, raised, save_failed_at >>

genVars == << pc, max_articles, top_stories, idx, generated_files, sink,
              gen_log, item_log, raised, save_failed_at >>

-----------------------------------------------------------------------------
(* Bounds of the model *)

MaxCallsPerMinute == 2
MaxCalls == 4
MaxClock == 120
MaxLimit == 7
MaxTitleLen == 52

(* Program constants *)

WindowSeconds == 60
SafetyMargin == 1
DefaultCallsPerMinute == 10
DefaultMaxArticles == 5
TitleMaxLen == 50

-----------------------------------------------------------------------------
(* Python values *)

None == "<None>"

PyNone == [kind |-> "None", empty |-> TRUE, has_title |-> FALSE, title |-> << >>]

JsonObject(title) ==
    [kind |-> "object", empty |-> FALSE, has_title |-> TRUE, title |-> title]

Truthy(v) == v.kind # "None" /\ ~v.empty

RangeOf(s) == { s[k] : k \in 1..Len(s) }

-----------------------------------------------------------------------------
(* RateLimiter *)

\* utils.py:70  self.calls = [t for t in self.calls if now - t < 60]
PruneCalls(cs, now) ==
    LET keep(t) == now - t < WindowSeconds
    IN  SelectSeq(cs, keep)

SleepTimeNoMargin(kept, now) == WindowSeconds - (now - kept[1])

\* utils.py:74  sleep_time = 60 - (now - self.calls[0]) + 1
SleepTime(kept, now) == WindowSeconds - (now - kept[1]) + SafetyMargin

\* utils.py:66-79  wait_if_needed: the list it leaves, the seconds it slept
wait_if_needed(cs, now, limit) ==
    LET kept == PruneCalls(cs, now)
        st   == IF Len(kept) >= limit THEN SleepTime(kept, now) ELSE 0
        slept == IF st > 0 THEN st ELSE 0
    IN  [calls |-> Append(kept, now), slept |-> slept, at |-> now]

-----------------------------------------------------------------------------
(* Provider responses and their parsing *)

FJ == "FENCE_JSON"
F  == "FENCE"
WS == " "
X  == "prose"

JsonTokens ==
    { "{title:a/}", "{title:b}", "{content}", "{}", "[1]", "str", "7" }

\* json.loads of one complete JSON document
JsonValue(tok) ==
    CASE tok = "{title:a/}" -> JsonObject(<< "a", "/" >>)
      [] tok = "{title:b}"  -> JsonObject(<< "b" >>)
      [] tok = "{content}"  ->
            [kind |-> "object", empty |-> FALSE, has_title |-> FALSE, title |-> << >>]
      [] tok = "{}"         ->
            [kind |-> "object", empty |-> TRUE, has_title |-> FALSE, title |-> << >>]
      [] tok = "[1]"        ->
            [kind |-> "array", empty |-> FALSE, has_title |-> FALSE, title |-> << >>]
      [] tok = "str"        ->
            [kind |-> "string", empty |-> FALSE, has_title |-> FALSE, title |-> << >>]
      [] tok = "7"          ->
            [kind |-> "number", empty |-> FALSE, has_title |-> FALSE, title |-> << >>]

\* index of the first occurrence of tok in s, 0 when absent (str.find)
FirstIndex(s, tok) ==
    IF tok \in RangeOf(s)
    THEN CHOOSE k \in 1..Len(s) : s[k] = tok /\ \A j \in 1..(k - 1) : s[j] # tok
    ELSE 0

\* s.split(tok)[0]
SplitFirst(s, tok) ==
    LET b == FirstIndex(s, tok)
    IN  IF b = 0 THEN s ELSE SubSeq(s, 1, b - 1)

\* s.split(tok)[1], for s that holds tok
SplitSecond(s, tok) ==
    LET a == FirstIndex(s, tok)
    IN  SplitFirst(SubSeq(s, a + 1, Len(s)), tok)

\* str.strip()
RECURSIVE Strip(_)
Strip(s) ==
    IF s = << >> THEN s
    ELSE IF Head(s) = WS THEN Strip(Tail(s))
    ELSE IF s[Len(s)] = WS THEN Strip(SubSeq(s, 1, Len(s) - 1))
    ELSE s

\* generate_articles.py:115-116
\*   if FJ in content: content = content.split(FJ)[1].split(F)[0].strip()
ExtractJson(text) ==
    IF FJ \in RangeOf(text)
    THEN Strip(SplitFirst(SplitSecond(text, FJ), F))
    ELSE text

\* generate_articles.py:118  json.loads(content): surrounding whitespace is
\* allowed, anything else around or instead of one document is an error
JsonLoads(content) ==
    LET doc == Strip(content)
    IN  IF Len(doc) = 1 /\ doc[1] \in JsonTokens
        THEN [error |-> FALSE, value |-> JsonValue(doc[1])]
        ELSE [error |-> TRUE, value |-> PyNone]

Raises == [raises |-> TRUE, text |-> << >>]

Says(text) == [raises |-> FALSE, text |-> text]

ResponseTexts ==
    { << >>, << X >>, << F, "{title:b}", F >>,
      << FJ, "{title:a/}", F >>, << FJ, "{title:b}", F >>,
      << X, FJ, WS, "{title:b}", WS, F, X >>,
      << FJ, X, F >>, << FJ, "{title:b}", X, F >>,
      << FJ, "{title:b}" >>, << FJ, WS, "{}" >>, << FJ, X >>, << FJ >>,
      << FJ, "{title:b}", F, FJ, X, F >> }
    \cup { << tok >> : tok \in JsonTokens }

Responses == { Raises } \cup { Says(t) : t \in ResponseTexts }

-----------------------------------------------------------------------------
(* APIKeyManager *)

Keys == { None, "", "sk-key" }

\* str.lower() on the AI_MODEL values of the model
Lower(s) ==
    CASE s = "GPT4"   -> "gpt4"
      [] s = "Claude" -> "claude"
      [] OTHER        -> s

\* os.getenv(name, default)
GetEnv(e, name, default) == IF e[name] = None THEN default ELSE e[name]

\* utils.py:41-43
claude_key(e) == e["CLAUDE_API_KEY"]
gpt4_key(e) == e["GPT4_API_KEY"]
active_model(e) == Lower(GetEnv(e, "AI_MODEL", "claude"))

\* utils.py:46-52
get_active_key(e) ==
    IF active_model(e) = "claude" THEN claude_key(e)
    ELSE IF active_model(e) \in { "gpt4", "gpt-4.1-nano" } THEN gpt4_key(e)
    ELSE None

\* utils.py:54-56
has_valid_key(e) == get_active_key(e) # None

\* truth value of a str-or-None
TruthyStr(s) == s # None /\ s # ""

\* generate_articles.py:47-59, with the guarded imports of lines 13-21
init_claude_client(e) == TruthyStr(claude_key(e)) /\ e["anthropic"] = "installed"
init_openai_client(e) == TruthyStr(gpt4_key(e)) /\ e["openai"] = "installed"
AiModels == { None, "claude", "GPT4", "gpt-4.1-nano", "gemini" }

MaxArticlesValues == { None, "-1", "0", "2" }

Envs ==
    [ CLAUDE_API_KEY : Keys, GPT4_API_KEY : Keys, AI_MODEL : AiModels,
      MAX_ARTICLES_PER_RUN : MaxArticlesValues,
      anthropic : { "installed", "missing" },
      openai : { "installed", "missing" } ]

-----------------------------------------------------------------------------
(* Generation client *)

ReRaise(body) ==
    [result |-> body.value, exc |-> body.error]

\* generate_articles.py:120-122 / 151-153  except Exception: log, return None
ExceptHandler(body) ==
    [result |-> IF body.error THEN PyNone ELSE body.value, exc |-> FALSE]

\* generate_articles.py:100-118 / 130-149  the try body: admission, provider
\* call, fence extraction, json.loads
TryBody(resp) ==
    IF resp.raises
    THEN [error |-> TRUE, value |-> PyNone]
    ELSE JsonLoads(ExtractJson(resp.text))

\* one generate_with_* call on the generator's limiter: what it returns and
\* the limiter and clock it leaves; lat is the provider call's duration
GenerateWith(client, resp, lat) ==
    IF ~client
    THEN [result |-> PyNone, exc |-> FALSE, issued |-> FALSE,
          calls |-> calls, clock |-> clock, at |-> clock, slept |-> 0]
    ELSE LET w == wait_if_needed(calls, clock, calls_per_minute)
             h == ExceptHandler(TryBody(resp))
         IN  [result |-> h.result, exc |-> h.exc, issued |-> TRUE,
              calls |-> w.calls, clock |-> clock + w.slept + lat,
              at |-> w.at, slept |-> w.slept]

\* generate_articles.py:94-122
generate_with_claude(resp, lat) == GenerateWith(claude_client, resp, lat)

\* generate_articles.py:124-153
generate_with_gpt4(resp, lat) == GenerateWith(openai_client, resp, lat)

\* the effect of a generate_with_* call on the limiter, the clock and the
\* histories of provider calls and admissions
LimiterAfter(g) ==
    /\ calls' = g.calls
    /\ clock' = g.clock
    /\ provider_times' =
          IF g.issued THEN Append(provider_times, g.at + g.slept)
          ELSE provider_times
    /\ wait_log' =
          IF g.issued THEN Append(wait_log, [at |-> g.at, slept |-> g.slept])
          ELSE wait_log

NoCall == [n |-> 0, fn |-> "none", client |-> FALSE, resp |-> Raises,
           result |-> PyNone, exc |-> FALSE]

-----------------------------------------------------------------------------
(* Direct calls of generate_with_claude and generate_with_gpt4 on one      *)
(* ArticleGenerator                                                        *)

RunIdle ==
    /\ pc = "idle"
    /\ max_articles = 0
    /\ top_stories = << >>
    /\ idx = 0
    /\ generated_files = << >>
    /\ sink = {}
    /\ gen_log = << >>
    /\ item_log = << >>
    /\ raised = "none"
    /\ save_failed_at = 0
    /\ news_dir = [exists |-> FALSE, files |-> << >>]

\* generate_articles.py:38-45 and utils.py:62-64: a fresh generator
FreshGenerator(e, limit) ==
    /\ env = e
    /\ claude_client = init_claude_client(e)
    /\ openai_client = init_openai_client(e)
    /\ calls_per_minute = limit
    /\ calls = << >>
    /\ clock = 0
    /\ provider_times = << >>
    /\ wait_log = << >>
    /\ last_call = NoCall

CallGenerateWithClaude(resp, lat) ==
    /\ pc = "idle"
    /\ last_call.n < MaxCalls
    /\ LET g == generate_with_claude(resp, lat)
       IN  /\ LimiterAfter(g)
           /\ last_call' = [n |-> last_call.n + 1, fn |-> "claude",
                            client |-> claude_client, resp |-> resp,
                            result |-> g.result, exc |-> g.exc]
    /\ UNCHANGED << env, news_dir, claude_client, openai_client,
                    calls_per_minute, genVars >>

CallGenerateWithGpt4(resp, lat) ==
    /\ pc = "idle"
    /\ last_call.n < MaxCalls
    /\ LET g == generate_with_gpt4(resp, lat)
       IN  /\ LimiterAfter(g)
           /\ last_call' = [n |-> last_call.n + 1, fn |-> "gpt4",
                            client |-> openai_client, resp |-> resp,
                            result |-> g.result, exc |-> g.exc]
    /\ UNCHANGED << env, news_dir, claude_client, openai_client,
                    calls_per_minute, genVars >>

\* time passes between two calls
Tick(d) ==
    /\ pc = "idle"
    /\ clock + d <= MaxClock
    /\ clock' = clock + d
    /\ UNCHANGED << env, news_dir, claude_client, openai_client,
                    calls_per_minute, calls, provider_times, wait_log,
                    last_call, genVars >>

Latencies == { 0, 1 }

TickSteps == { 29, 30, 60 }

BothKeys ==
    [ CLAUDE_API_KEY |-> "sk-key", GPT4_API_KEY |-> "sk-key", AI_MODEL |-> None,
      MAX_ARTICLES_PER_RUN |-> None, anthropic |-> "installed",
      openai |-> "installed" ]

(* Specification SpecLimiter: both clients exist, the limit is any N, the  *)
(* calls arrive at arbitrary non-decreasing times                          *)

LimiterResponses == { Raises, Says(<< "{title:b}" >>) }

InitLimiter ==
    /\ \E limit \in 1..MaxCallsPerMinute : FreshGenerator(BothKeys, limit)
    /\ RunIdle

NextLimiter ==
    \/ \E resp \in LimiterResponses, lat \in Latencies :
          CallGenerateWithClaude(resp, lat)
    \/ \E resp \in LimiterResponses, lat \in Latencies :
          CallGenerateWithGpt4(resp, lat)
    \/ \E d \in TickSteps : Tick(d)

SpecLimiter == InitLimiter /\ [][NextLimiter]_vars

(* Specification SpecGen: any credentials, any provider response *)

GenEnvs ==
    { e \in Envs : /\ e.AI_MODEL = None
                   /\ e.MAX_ARTICLES_PER_RUN = None
                   /\ e.anthropic = "installed"
                   /\ e.openai = "installed" }

InitGen ==
    /\ \E e \in GenEnvs : FreshGenerator(e, DefaultCallsPerMinute)
    /\ RunIdle

NextGen ==
    \/ \E resp \in Responses : CallGenerateWithClaude(resp, 0)
    \/ \E resp \in Responses : CallGenerateWithGpt4(resp, 0)

SpecGen == InitGen /\ [][NextGen]_vars
-----------------------------------------------------------------------------
(* News data and the output sink *)

Min(a, b) == IF a <= b THEN a ELSE b
Max(a, b) == IF a >= b THEN a ELSE b

\* a news_*.json file as json.load returns it: {} is falsy, and a dataset
\* maps source -> category -> articles, in file order
EmptyDict == [empty |-> TRUE, news |-> << >>]

NewsData(news) == [empty |-> FALSE, news |-> news]

OneSource ==
    NewsData(<< [source |-> "yonhap", categories |->
                   << [category |-> "politics",
                       articles |-> << "n1", "n2", "n3" >>] >>] >>)

TwoSources ==
    NewsData(<< [source |-> "yonhap", categories |->
                   << [category |-> "politics", articles |-> << "n1" >>],
                      [category |-> "economy", articles |-> << "n2" >>] >>],
                [source |-> "kbs", categories |->
                   << [category |-> "politics", articles |-> << "n3" >>] >>] >>)

Unreadable == [readable |-> FALSE, data |-> EmptyDict]

File(d) == [readable |-> TRUE, data |-> d]

NoDir == [exists |-> FALSE, files |-> << >>]

\* the news_*.json files of the directory, in ascending order of name
Dir(files) == [exists |-> TRUE, files |-> files]

NewsDirs ==
    { NoDir, Dir(<< >>), Dir(<< Unreadable >>),
      Dir(<< File(OneSource), Unreadable >>),
      Dir(<< File(EmptyDict) >>), Dir(<< File(NewsData(<< >>)) >>),
      Dir(<< Unreadable, File(OneSource) >>),
      Dir(<< File(OneSource), File(TwoSources) >>) }

NotLoaded == [loaded |-> FALSE, data |-> EmptyDict]

\* reads the newest file that can be read
load_latest_or_older(dir) ==
    LET ok == { k \in 1..Len(dir.files) : dir.files[k].readable }
    IN  IF ~dir.exists \/ ok = {} THEN NotLoaded
        ELSE [loaded |-> TRUE,
              data |-> dir.files[CHOOSE k \in ok : \A j \in ok : j <= k].data]

\* utils.py:112-133  sorted(glob, reverse=True)[0] is the last file by name
load_latest_news_data(dir) ==
    IF ~dir.exists THEN NotLoaded
    ELSE IF dir.files = << >> THEN NotLoaded
    ELSE LET latest_file == dir.files[Len(dir.files)]
         IN  IF latest_file.readable
             THEN [loaded |-> TRUE, data |-> latest_file.data]
             ELSE NotLoaded

\* generate_articles.py:66-71  the flatten, each article with its source
\* and category
RECURSIVE FlattenCategories(_, _)
FlattenCategories(source, categories) ==
    IF categories = << >> THEN << >>
    ELSE LET c == Head(categories)
         IN  [k \in 1..Len(c.articles) |->
                 [link |-> c.articles[k], source_name |-> source,
                  category |-> c.category]]
             \o FlattenCategories(source, Tail(categories))

RECURSIVE FlattenNews(_)
FlattenNews(news) ==
    IF news = << >> THEN << >>
    ELSE FlattenCategories(Head(news).source, Head(news).categories)
         \o FlattenNews(Tail(news))

SliceThrough(s, n) == SubSeq(s, 1, Min(n + 1, Len(s)))

\* s[:n] of Python
SliceTo(s, n) ==
    IF n >= 0 THEN SubSeq(s, 1, Min(n, Len(s)))
    ELSE SubSeq(s, 1, Max(Len(s) + n, 0))

\* generate_articles.py:61-79
select_top_stories(news_data, limit) ==
    SliceTo(FlattenNews(news_data.news), limit)

\* int() on the MAX_ARTICLES_PER_RUN values of the model
ParseInt(s) ==
    CASE s = "-1" -> -1
      [] s = "0"  -> 0
      [] s = "2"  -> 2

\* generate_articles.py:248  int(os.getenv('MAX_ARTICLES_PER_RUN', 5))
max_articles_from_env(e) ==
    IF e["MAX_ARTICLES_PER_RUN"] = None THEN DefaultMaxArticles
    ELSE ParseInt(e["MAX_ARTICLES_PER_RUN"])

\* str.isalnum() on the characters of the model
IsAlnum(c) == c \in { "a", "b", "Z", "7", "e_acute", "hangul_ga", "arabic_3" }

safe_title_untruncated(title) ==
    LET keep(c) == IsAlnum(c) \/ c \in { " ", "-", "_" }
    IN  SelectSeq(title, keep)

\* utils.py:143
safe_title(title) ==
    LET keep(c) == IsAlnum(c) \/ c \in { " ", "-", "_" }
        kept == SelectSeq(title, keep)
    IN  SubSeq(kept, 1, Min(TitleMaxLen, Len(kept)))

NoFile == [safe_title |-> << >>, timestamp |-> -1]

\* open(filename, 'w') and the write: the file of that name is replaced
WriteFile(files, name, link, complete) ==
    { f \in files : f.name # name }
        \cup { [name |-> name, link |-> link, complete |-> complete] }

SaveOutcomes == { "ok", "open_fails", "write_fails" }

\* utils.py:136-150  article is the parsed object, link its source article,
\* now the clock, outcome what the file system does
save_generated_article(article, link, files, now, outcome) ==
    IF ~article.has_title
    THEN [exc |-> "KeyError", sink |-> files, filename |-> NoFile]
    ELSE LET filename == [safe_title |-> safe_title(article.title),
                          timestamp |-> now]
         IN  CASE outcome = "open_fails" ->
                    [exc |-> "OSError", sink |-> files, filename |-> NoFile]
               [] outcome = "write_fails" ->
                    [exc |-> "OSError",
                     sink |-> WriteFile(files, filename, link, FALSE),
                     filename |-> NoFile]
               [] outcome = "ok" ->
                    [exc |-> "none",
                     sink |-> WriteFile(files, filename, link, TRUE),
                     filename |-> filename]

-----------------------------------------------------------------------------
(* run() *)

NotCalled ==
    [result |-> PyNone, exc |-> FALSE, issued |-> FALSE,
     calls |-> calls, clock |-> clock, at |-> clock, slept |-> 0]

\* generate_articles.py:155-186
generate_article(resp, lat) ==
    LET g == IF active_model(env) = "claude" THEN generate_with_claude(resp, lat)
             ELSE IF active_model(env) = "gpt4" THEN generate_with_gpt4(resp, lat)
             ELSE NotCalled
    IN  [g |-> g, article |-> g.result,
         \* lines 180-184: article['generated_at'] = ... on a truthy value
         exc |-> IF Truthy(g.result) /\ g.result.kind # "object"
                 THEN "TypeError" ELSE "none"]

AfterSaveSkipping(files, s) ==
    IF s.exc # "none"
    THEN [pc |-> "loop", raised |-> "none", generated_files |-> files]
    ELSE [pc |-> "loop", raised |-> "none",
          generated_files |-> Append(files, s.filename)]

\* generate_articles.py:233-235  the save is not guarded: its exception
\* leaves run()
AfterSave(files, s) ==
    IF s.exc # "none"
    THEN [pc |-> "raised", raised |-> s.exc, generated_files |-> files]
    ELSE [pc |-> "loop", raised |-> "none",
          generated_files |-> Append(files, s.filename)]

\* the provider answered with JSON: alone, or inside a json fence
AnsweredJson(resp) ==
    /\ ~resp.raises
    /\ JsonLoads(ExtractJson(resp.text)).error = FALSE

\* generate_articles.py:202-218  run() up to the loop
RunStart ==
    /\ pc = "idle"
    /\ IF ~has_valid_key(env)
       THEN pc' = "done" /\ top_stories' = << >>
       ELSE LET l == load_latest_news_data(news_dir)
            IN  IF ~l.loaded \/ l.data.empty
                THEN pc' = "done" /\ top_stories' = << >>
                ELSE /\ pc' = "loop"
                     /\ top_stories' = select_top_stories(l.data, max_articles)
    /\ UNCHANGED << env, news_dir, claude_client, openai_client,
                    calls_per_minute, calls, clock, provider_times, wait_log,
                    last_call, max_articles, idx, generated_files, sink,
                    gen_log, item_log, raised, save_failed_at >>

\* generate_articles.py:222-237  one iteration of the loop
RunIteration(resp, lat, outcome) ==
    /\ pc = "loop"
    /\ idx < Len(top_stories)
    /\ LET story == top_stories[idx + 1]
           a == generate_article(resp, lat)
           s == save_generated_article(a.article, story.link, sink,
                                       a.g.clock, outcome)
           saving == a.exc = "none" /\ Truthy(a.article)
           after == AfterSave(generated_files, s)
       IN  /\ LimiterAfter(a.g)
           /\ idx' = idx + 1
           /\ gen_log' = Append(gen_log, story)
           /\ item_log' = Append(item_log,
                 [link |-> story.link, issued |-> a.g.issued,
                  json |-> a.g.issued /\ AnsweredJson(resp),
                  file |-> IF saving THEN s.filename ELSE NoFile])
           /\ IF a.exc # "none"
              THEN /\ pc' = "raised" /\ raised' = a.exc
                   /\ UNCHANGED << generated_files, sink, save_failed_at >>
              ELSE IF saving
              THEN /\ pc' = after.pc /\ raised' = after.raised
                   /\ generated_files' = after.generated_files
                   /\ sink' = s.sink
                   /\ save_failed_at' =
                         IF s.exc # "none" THEN idx + 1 ELSE save_failed_at
              ELSE UNCHANGED << pc, raised, generated_files, sink,
                                save_failed_at >>
    /\ UNCHANGED << env, news_dir, claude_client, openai_client,
                    calls_per_minute, last_call, max_articles, top_stories >>

\* generate_articles.py:239-240
RunReturn ==
    /\ pc = "loop"
    /\ idx = Len(top_stories)
    /\ pc' = "done"
    /\ UNCHANGED << env, news_dir, claude_client, openai_client,
                    calls_per_minute, calls, clock, provider_times, wait_log,
                    last_call, max_articles, top_stories, idx,
                    generated_files, sink, gen_log, item_log, raised,
                    save_failed_at >>

\* generate_articles.py:243-250  main(): a fresh ArticleGenerator, the
\* environment and the news_data directory being anything
Init ==
    /\ \E e \in Envs : FreshGenerator(e, DefaultCallsPerMinute)
    /\ \E d \in NewsDirs : news_dir = d
    /\ pc = "idle"
    /\ max_articles = max_articles_from_env(env)
    /\ top_stories = << >>
    /\ idx = 0
    /\ generated_files = << >>
    /\ sink = {}
    /\ gen_log = << >>
    /\ item_log = << >>
    /\ raised = "none"
    /\ save_failed_at = 0

\* what the provider answers in run(): an exception, prose, a fenced
\* document, or any one JSON document
RunResponses ==
    { Raises, Says(<< X >>), Says(<< FJ, "{title:a/}", F >>) }
        \cup { Says(<< tok >>) : tok \in JsonTokens }

Next ==
    \/ RunStart
    \/ \E resp \in RunResponses, lat \in Latencies, outcome \in SaveOutcomes :
          RunIteration(resp, lat, outcome)
    \/ RunReturn

Spec == Init /\ [][Next]_vars

-----------------------------------------------------------------------------
(* Claims about the rate limiter (SpecLimiter) *)

\* number of the timestamps of ts in the 60-second window that ends at ts[k]
InWindowEndingAt(ts, k) ==
    Cardinality({ j \in 1..Len(ts) :
                     ts[k] - WindowSeconds < ts[j] /\ ts[j] <= ts[k] })

\* C1: with each provider call issued when wait_if_needed returns, no
\* 60-second window holds more than calls_per_minute provider calls.
C1_NoWindowOverLimit ==
    \A k \in 1..Len(provider_times) :
        InWindowEndingAt(provider_times, k) <= calls_per_minute

\* the first k admissions asked for at the same instant
InImmediateSuccession(k) ==
    \A j \in 1..k : wait_log[j].at = wait_log[1].at

\* C2: on a fresh limiter the first N calls made in immediate succession
\* never sleep, and the (N+1)-th, made while all N are within the last 60
\* seconds, sleeps at least 60 - (now - oldest) + 1 seconds.
C2_BurstThenWait ==
    LET N == calls_per_minute
    IN  /\ \A k \in 1..Len(wait_log) :
              (k <= N /\ InImmediateSuccession(k)) => wait_log[k].slept = 0
        /\ ( /\ Len(wait_log) > N
             /\ InImmediateSuccession(N)
             /\ wait_log[N + 1].at - wait_log[1].at < WindowSeconds )
           => wait_log[N + 1].slept
                 >= WindowSeconds - (wait_log[N + 1].at - wait_log[1].at) + 1

\* C2 witness: limit 2, two calls at once, the third 30 seconds later sleeps 31
C2_Witness ==
    /\ calls_per_minute = 2
    /\ Len(wait_log) = 3
    /\ wait_log[1].slept = 0 /\ wait_log[2].slept = 0
    /\ wait_log[2].at = wait_log[1].at
    /\ wait_log[3].at = wait_log[1].at + 30
    /\ wait_log[3].slept = 31

\* C3: whenever wait_if_needed has returned, its timestamp list holds no more
\* than calls_per_minute timestamps inside any one 60-second window.
C3_ListWithinLimit ==
    \A k \in 1..Len(calls) : InWindowEndingAt(calls, k) <= calls_per_minute

-----------------------------------------------------------------------------
(* Claims about generate_with_claude / generate_with_gpt4 (SpecGen) *)

\* the text is one JSON document, whitespace aside
IsJsonDocument(text) ==
    LET notWs(t) == t # WS
        doc == SelectSeq(text, notWs)
    IN  /\ Len(doc) = 1
        /\ doc[1] \in JsonTokens
        /\ \A k \in 1..Len(text) : text[k] = WS \/ text[k] = doc[1]

HasOpeningFence(text) == \E k \in 1..Len(text) : text[k] = FJ

\* what follows the first opening fence
AfterOpeningFence(text) ==
    LET a == CHOOSE k \in 1..Len(text) :
                 text[k] = FJ /\ \A j \in 1..(k - 1) : text[j] # FJ
    IN  [k \in 1..(Len(text) - a) |-> text[a + k]]

ClosingFenceAbsent(text) ==
    /\ HasOpeningFence(text)
    /\ \A k \in 1..Len(AfterOpeningFence(text)) : AfterOpeningFence(text)[k] # F

\* the fenced content: from the opening fence to the closing one, or to the
\* end of the text when there is none
FencedContent(text) ==
    LET rest == AfterOpeningFence(text)
        ends == { k \in 1..Len(rest) : rest[k] = F }
        stop == IF ends = {} THEN Len(rest) + 1
                ELSE CHOOSE k \in ends : \A j \in ends : k <= j
    IN  [k \in 1..(stop - 1) |-> rest[k]]

FencedContentUnparseable(text) ==
    HasOpeningFence(text) /\ ~IsJsonDocument(FencedContent(text))

NotJson(text) == ~HasOpeningFence(text) /\ ~IsJsonDocument(text)

ReturnedNone == last_call.result = PyNone /\ ~last_call.exc

\* C6 as claimed: None, and no exception, when the client is missing, the
\* provider call raises, the text is empty or not JSON, or the fenced block
\* is malformed: content not parseable, or closing fence absent.
C6_NoneOnEveryFailure ==
    ( /\ last_call.n > 0
      /\ \/ ~last_call.client
         \/ last_call.resp.raises
         \/ last_call.resp.text = << >>
         \/ NotJson(last_call.resp.text)
         \/ FencedContentUnparseable(last_call.resp.text)
         \/ ClosingFenceAbsent(last_call.resp.text) )
    => ReturnedNone

\* C6 amended: None, and no exception, when the client is missing, the
\* provider call raises, the text is empty or not JSON, or the content after
\* the opening fence (up to the closing fence, or to the end of the text when
\* there is none) is not parseable; a block that lacks only its closing fence
\* is parsed and its value returned.
C6_NoneOnFailure ==
    /\ ( /\ last_call.n > 0
         /\ \/ ~last_call.client
            \/ last_call.resp.raises
            \/ last_call.resp.text = << >>
            \/ NotJson(last_call.resp.text)
            \/ FencedContentUnparseable(last_call.resp.text) )
       => ReturnedNone
    /\ ( /\ last_call.n > 0
         /\ last_call.client
         /\ ~last_call.resp.raises
         /\ ClosingFenceAbsent(last_call.resp.text)
         /\ ~FencedContentUnparseable(last_call.resp.text) )
       => (last_call.result.kind # "None" /\ ~last_call.exc)

\* C6 witness: a client exists and the provider answered with an opening
\* fence followed by prose and no closing fence; the call returned None
C6_Witness ==
    /\ last_call.n > 0
    /\ last_call.client
    /\ last_call.resp = Says(<< FJ, X >>)
    /\ ReturnedNone
-----------------------------------------------------------------------------
(* Claims about run() (Spec) *)

\* no directory, no news_*.json file, or an unreadable latest file
NoDataset(dir) ==
    \/ ~dir.exists
    \/ dir.files = << >>
    \/ ~dir.files[Len(dir.files)].readable

\* C4: without a valid key, or without a dataset, run() returns an empty
\* list and makes no provider call, no rate-limiter admission and no save.
C4_EarlyReturnDoesNothing ==
    (pc # "idle" /\ (~has_valid_key(env) \/ NoDataset(news_dir)))
    => /\ pc = "done"
       /\ generated_files = << >>
       /\ provider_times = << >>
       /\ wait_log = << >> /\ calls = << >>
       /\ gen_log = << >>
       /\ sink = {}

\* C4 witness: a usable Claude client and an older readable dataset, but the
\* latest file is unreadable; run() has returned the empty list
C4_Witness ==
    /\ pc = "done"
    /\ has_valid_key(env) /\ active_model(env) = "claude" /\ claude_client
    /\ news_dir = Dir(<< File(OneSource), Unreadable >>)
    /\ generated_files = << >>

\* the iterations whose provider call answered with JSON
JsonItems ==
    LET answered(r) == r.json
    IN  SelectSeq(item_log, answered)

\* C5: in a run where no save raises, a provider failure skips only its own
\* item: every selected item is attempted and the returned list has exactly
\* one entry, in selection order, for each item whose response was valid JSON.
C5_OneEntryPerJsonAnswer ==
    (pc \in { "done", "raised" } /\ save_failed_at = 0)
    => /\ pc = "done"
       /\ gen_log = top_stories
       /\ Len(generated_files) = Len(JsonItems)
       /\ \A k \in 1..Len(JsonItems) :
             k <= Len(generated_files) => generated_files[k] = JsonItems[k].file

\* C7: for every dataset and every integer max_articles, run() invokes
\* generation once per selected item, in selection order, and neither the
\* invocations nor the persisted files outnumber max_articles (a negative
\* max_articles read as allowing none).
C7_WithinMaxArticles ==
    /\ gen_log = SubSeq(top_stories, 1, Len(gen_log))
    /\ (pc = "done" => gen_log = top_stories)
    /\ Len(gen_log) <= Max(max_articles, 0)
    /\ Cardinality(sink) <= Max(max_articles, 0)

\* C8: with a working sink, whatever the provider returns, run() does not
\* raise.
C8_RunNeverRaises ==
    raised # "OSError" => raised = "none"

C10_EachArticleStoredOnce ==
    pc = "done"
    => /\ \A j, k \in 1..Len(generated_files) :
             j # k => generated_files[j] # generated_files[k]
       /\ \A k \in 1..Len(item_log) :
             item_log[k].file # NoFile
             => [name |-> item_log[k].file, link |-> item_log[k].link,
                 complete |-> TRUE] \in sink
-----------------------------------------------------------------------------
(* Specification SpecSelect: select_top_stories called on any dataset with *)
(* any limit >= 0                                                          *)

ArticleLists ==
    { << >>, << "n1" >>, << "n2", "n1" >>, << "n1", "n2", "n3" >> }

CategoryLists ==
    { << >> }
        \cup { << [category |-> "politics", articles |-> a] >> :
                  a \in ArticleLists }
        \cup { << [category |-> "politics", articles |-> a],
                  [category |-> "economy", articles |-> b] >> :
                  a \in ArticleLists, b \in ArticleLists }

SelectDatasets ==
    { NewsData(<< >>) }
        \cup { NewsData(<< [source |-> "yonhap", categories |-> c] >>) :
                  c \in CategoryLists }
        \cup { NewsData(<< [source |-> "yonhap", categories |-> c],
                           [source |-> "kbs", categories |-> d] >>) :
                  c \in CategoryLists, d \in CategoryLists }

InitSelect ==
    /\ FreshGenerator(BothKeys, DefaultCallsPerMinute)
    /\ \E d \in SelectDatasets : news_dir = Dir(<< File(d) >>)
    /\ max_articles \in 0..MaxLimit
    /\ pc = "idle"
    /\ top_stories = << >>
    /\ idx = 0
    /\ generated_files = << >>
    /\ sink = {}
    /\ gen_log = << >>
    /\ item_log = << >>
    /\ raised = "none"
    /\ save_failed_at = 0

\* generate_articles.py:61-79  one call select_top_stories(news_data, limit)
CallSelectTopStories ==
    /\ pc = "idle"
    /\ top_stories' = select_top_stories(news_dir.files[1].data, max_articles)
    /\ pc' = "selected"
    /\ UNCHANGED << env, news_dir, claude_client, openai_client,
                    calls_per_minute, calls, clock, provider_times, wait_log,
                    last_call, max_articles, idx, generated_files, sink,
                    gen_log, item_log, raised, save_failed_at >>

NextSelect == CallSelectTopStories

SpecSelect == InitSelect /\ [][NextSelect]_vars

(* Claims about select_top_stories (SpecSelect) *)

\* the places << source, category, article >> of a dataset
Places(news) ==
    UNION { UNION { { << i, j, k >> :
                         k \in 1..Len(news[i].categories[j].articles) } :
                    j \in 1..Len(news[i].categories) } :
            i \in 1..Len(news) }

\* source order, then category order, then article order
ComesBefore(p, q) ==
    \/ p[1] < q[1]
    \/ p[1] = q[1] /\ p[2] < q[2]
    \/ p[1] = q[1] /\ p[2] = q[2] /\ p[3] < q[3]

PlaceRank(news, p) ==
    1 + Cardinality({ q \in Places(news) : ComesBefore(q, p) })

\* C11: for every dataset and every limit >= 0, select_top_stories returns
\* exactly the first min(limit, total) items of the flatten sequence (source
\* order, then category order, then article order), each annotated with its
\* own source and category.
C11_FirstItemsOfFlatten ==
    pc = "selected"
    => LET news == news_dir.files[1].data.news
           total == Cardinality(Places(news))
       IN  /\ Len(top_stories) = Min(max_articles, total)
           /\ \A p \in Places(news) :
                 PlaceRank(news, p) <= Len(top_stories)
                 => top_stories[PlaceRank(news, p)] =
                       [link |-> news[p[1]].categories[p[2]].articles[p[3]],
                        source_name |-> news[p[1]].source,
                        category |-> news[p[1]].categories[p[2]].category]

\* C11 witness: a limit of 3 cuts a dataset of more items, and the selection
\* runs across two categories and two sources
C11_Witness ==
    /\ pc = "selected"
    /\ max_articles = 3
    /\ Cardinality(Places(news_dir.files[1].data.news)) > 3
    /\ Len(top_stories) = 3
    /\ top_stories[1].category # top_stories[2].category
    /\ top_stories[2].source_name # top_stories[3].source_name
-----------------------------------------------------------------------------
(* Claims about the credential check (Spec) *)

\* the credential of the active model: CLAUDE_API_KEY for claude,
\* GPT4_API_KEY for gpt4 and its alias, none for any other model
ActiveCredential(e) ==
    LET model == IF e.AI_MODEL = None THEN "claude" ELSE Lower(e.AI_MODEL)
    IN  CASE model = "claude" -> e.CLAUDE_API_KEY
          [] model \in { "gpt4", "gpt-4.1-nano" } -> e.GPT4_API_KEY
          [] OTHER -> None

\* C12: for every combination of CLAUDE_API_KEY, GPT4_API_KEY (unset, empty
\* or non-empty) and AI_MODEL, has_valid_key() is true if and only if the
\* credential of the active model is non-empty.
C12_ValidKeyIffNonEmpty ==
    pc # "idle"
    => (has_valid_key(env)
          <=> (ActiveCredential(env) # None /\ ActiveCredential(env) # ""))

\* C14: when has_valid_key() is true for the configured AI_MODEL (claude,
\* gpt4 or the alias gpt-4.1-nano) and at least one item is selected, run()
\* issues a provider call for each selected item.  Stated for the case most
\* favourable to the claim: the credential is non-empty and both provider
\* libraries are installed.
C14_ProviderCallPerItem ==
    ( /\ pc = "done"
      /\ has_valid_key(env)
      /\ active_model(env) \in { "claude", "gpt4", "gpt-4.1-nano" }
      /\ ActiveCredential(env) # ""
      /\ env.anthropic = "installed" /\ env.openai = "installed"
      /\ Len(top_stories) >= 1 )
    => /\ provider_times # << >>
       /\ Len(provider_times) = Len(top_stories)
-----------------------------------------------------------------------------
(* Specification SpecTitle: save_generated_article called with an article  *)
(* of any title                                                            *)

TitleChars ==
    { "a", "Z", "7", " ", "-", "_", "/", ".", "e_acute", "hangul_ga",
      "arabic_3" }

TitlePrefixes ==
    { << >>, << "a", "/" >>, << "hangul_ga", " ", "7" >>, << "/", "." >> }

Repeat(c, n) == [k \in 1..n |-> c]

TitleInputs ==
    { p \o Repeat(c, n) : p \in TitlePrefixes, c \in TitleChars,
                          n \in 0..MaxTitleLen }

InitTitle ==
    /\ FreshGenerator(BothKeys, DefaultCallsPerMinute)
    /\ RunIdle

\* utils.py:136-150  one call save_generated_article(article)
CallSaveGeneratedArticle(title, outcome) ==
    /\ pc = "idle"
    /\ last_call.n = 0
    /\ LET s == save_generated_article(JsonObject(title), "direct", sink,
                                       clock, outcome)
       IN  /\ sink' = s.sink
           /\ last_call' = [n |-> 1, fn |-> "save_generated_article",
                            title |-> title, exc |-> s.exc,
                            filename |-> s.filename]
    /\ UNCHANGED << env, news_dir, claude_client, openai_client,
                    calls_per_minute, calls, clock, provider_times, wait_log,
                    pc, max_articles, top_stories, idx, generated_files,
                    gen_log, item_log, raised, save_failed_at >>

NextTitle ==
    \E title \in TitleInputs, outcome \in SaveOutcomes :
        CallSaveGeneratedArticle(title, outcome)

SpecTitle == InitTitle /\ [][NextTitle]_vars

(* Claims about the filename (SpecTitle) *)

\* the characters of the model that lie in [A-Za-z0-9 _-]
AsciiTitleChars == { "a", "b", "Z", "7", " ", "-", "_" }

Saved ==
    /\ last_call.fn = "save_generated_article"
    /\ last_call.filename # NoFile

\* C13 as claimed: the title part of the filename holds only characters of
\* [A-Za-z0-9 _-], is at most 50 characters long, and sanitizing it again
\* yields the same string.
C13_AsciiSafeTitle ==
    Saved
    => LET t == last_call.filename.safe_title
       IN  /\ \A k \in 1..Len(t) : t[k] \in AsciiTitleChars
           /\ Len(t) <= 50
           /\ safe_title(t) = t

\* C13 amended: the title part of the filename holds only characters that
\* str.isalnum() accepts (non-ASCII letters and digits among them) or that
\* are a space, a hyphen or an underscore, is at most 50 characters long,
\* and sanitizing it again yields the same string.
C13_SafeTitle ==
    Saved
    => LET t == last_call.filename.safe_title
       IN  /\ \A k \in 1..Len(t) : IsAlnum(t[k]) \/ t[k] \in { " ", "-", "_" }
           /\ \A k \in 1..Len(t) : t[k] \notin { "/", "." }
           /\ Len(t) <= 50
           /\ safe_title(t) = t

\* C13 witness: a title of more than 50 characters that begins with a
\* non-ASCII letter was saved under a 50-character name that keeps it
C13_Witness ==
    /\ Saved
    /\ Len(last_call.title) > 50
    /\ Len(last_call.filename.safe_title) = 50
    /\ last_call.filename.safe_title[1] = "hangul_ga"
====
